---- MODULE Spec2Model ----
(***************************************************************************)
(* Token economy of reportify-spot: the Postgres schema (tables, triggers, *)
(* row level security policies) of supabase/schema.sql and the service     *)
(* functions of hazardService.ts / rewardService.ts that call it.          *)
(*                                                                         *)
(* Every supabase request is one Postgres transaction at READ COMMITTED:   *)
(* a plain SELECT sees the last committed value, an UPDATE takes the row   *)
(* lock, recomputes from the last committed value and holds the lock until *)
(* the transaction commits or aborts.  A client function that issues       *)
(* several requests is a sequence of such transactions.                    *)
(***************************************************************************)
EXTENDS Integers, Sequences, FiniteSets, TLC

\* ---------------------------------------------------------------- bounds
MaxReports == 1      \* hazard_reports rows that may be inserted
MaxRewards == 2      \* user_rewards rows that may be inserted
MaxVoteIds == 2      \* hazard_votes row ids that may be handed out
MaxEconomyRows == 3  \* hazard_reports and user_rewards rows together
MaxThreadRows == 2   \* hazard_reports and hazard_comments rows together
MaxFail    == 1      \* storage errors injected in one run

\* ------------------------------------------------------------ universes
Users == {"alice", "admin"}
Procs == {"p1", "p2"}
Items == {"i1", "i2"}
NoOne == "none"

HazardStatus == {"active", "investigating", "resolved"}
RewardStatus == {"pending", "fulfilled", "cancelled"}

\* store_items rows present in the catalog
InitialStoreItems ==
  [i \in Items |-> [token_cost |-> IF i = "i1" THEN 10 ELSE 15, available |-> TRUE]]

VARIABLES
  tokens,          \* profiles.tokens, committed value per user
  is_admin,        \* profiles.is_admin
  full_name,       \* profiles.full_name
  store_items,     \* store_items rows
  hazard_reports,  \* hazard_reports rows, id = index
  hazard_votes,    \* hazard_votes rows: set of [id, hazard_id, user_id]
  nextVoteId,      \* next uuid of a hazard_votes row
  hazard_comments, \* hazard_comments rows: set of [id, hazard_id, user_id]
  nextCommentId,   \* next uuid of a hazard_comments row
  user_rewards,    \* user_rewards rows, id = index
  rowlock,         \* holder of the row lock of each profiles row
  pc,              \* position of each client call
  loc,             \* locals of each client call
  nfail            \* storage errors so far

vars == <<tokens, is_admin, full_name, store_items, hazard_reports, hazard_votes, nextVoteId,
          hazard_comments, nextCommentId, user_rewards, rowlock, pc, loc, nfail>>

votevars == <<hazard_votes, nextVoteId>>
commentvars == <<hazard_comments, nextCommentId>>

dbvars == <<tokens, is_admin, full_name, store_items, hazard_reports, votevars, commentvars,
            user_rewards>>

\* locals of a call that has not started
IdleLoc ==
  [op |-> "none", user |-> NoOne, item |-> NoOne, id |-> 0,
   seenTokens |-> 0, seenCost |-> 0, trigCost |-> 0, existing |-> 0, retried |-> FALSE,
   wrote |-> "none", cachedTokens |-> 0, cachedCost |-> 0, hazards |-> <<>>,
   ret |-> "none", err |-> "none"]

\* ------------------------------------------------- schema.sql: functions

\* DECLARE token_amount INTEGER := 10
token_amount == 10

\* the row as the client sends it, token_reward left at its column default
NewHazardRowDefaultReward(u) ==
  [reported_by |-> u, description |-> "d0", status |-> "active", votes |-> 0,
   comments |-> 0, token_reward |-> 0]

\* a row of hazard_reports as createHazardReport inserts it, after the
\* BEFORE INSERT trigger has set NEW.token_reward
NewHazardRow(u) ==
  [reported_by |-> u, description |-> "d0", status |-> "active", votes |-> 0,
   comments |-> 0, token_reward |-> token_amount]

\* a credit that reaches every profile
AwardTokensToEveryone(tok, u) == [w \in Users |-> tok[w] + token_amount]

\* award_report_tokens: SET tokens = tokens + token_amount WHERE id = NEW.reported_by
AwardTokens(tok, u) == [tok EXCEPT ![u] = @ + token_amount]

\* the check compares the balance with zero instead of with the cost
InsufficientTokensAgainstZero(user_tokens, token_cost) == user_tokens < 0

\* check_token_balance: IF user_tokens < token_cost THEN RAISE EXCEPTION
InsufficientTokens(user_tokens, token_cost) == user_tokens < token_cost

\* the cost is taken off the balance twice
DeductTokensTwice(tok, u, token_cost) == [tok EXCEPT ![u] = @ - 2 * token_cost]

\* check_token_balance: UPDATE profiles SET tokens = tokens - token_cost
DeductTokens(tok, u, token_cost) == [tok EXCEPT ![u] = @ - token_cost]

\* the credit is written outside the transaction and survives its abort
RolledBackTokensKeepsCredit(tok, u) == AwardTokens(tok, u)

\* a transaction that aborts leaves the profiles table as it was
RolledBackTokens(tok, u) == tok

\* the row is inserted as already fulfilled
NewRewardRowFulfilled(u, i) == [user_id |-> u, item_id |-> i, status |-> "fulfilled"]

\* a row of user_rewards as redeemStoreItem inserts it
NewRewardRow(u, i) == [user_id |-> u, item_id |-> i, status |-> "pending"]

\* ------------------------------------------------------ initial states
NoCalls ==
  /\ rowlock = [u \in Users |-> NoOne]
  /\ pc = [p \in Procs |-> "idle"]
  /\ loc = [p \in Procs |-> IdleLoc]
  /\ nfail = 0

Init ==
  /\ tokens = [u \in Users |-> 0]
  /\ is_admin = [u \in Users |-> u = "admin"]
  /\ full_name = [u \in Users |-> "n0"]
  /\ store_items = InitialStoreItems
  /\ hazard_reports = <<>>
  /\ hazard_votes = {}
  /\ nextVoteId = 1
  /\ hazard_comments = {}
  /\ nextCommentId = 1
  /\ user_rewards = <<>>
  /\ NoCalls

\* ------------------------------------------------------ call bookkeeping
\* rows inserted so far; an INSERT is explored while both counts are in bounds
EconomyRows == Len(hazard_reports) + Len(user_rewards)

ThreadRows == Len(hazard_reports) + (nextCommentId - 1)

MayInsert == EconomyRows < MaxEconomyRows /\ ThreadRows < MaxThreadRows

\* a transaction that ends keeps the row locks it took
KeepLocks(lk, p) == lk

\* COMMIT and ROLLBACK release the row locks the transaction took
ReleaseLocks(lk, p) == [u \in Users |-> IF lk[u] = p THEN NoOne ELSE lk[u]]

Finish(p, r, e) ==
  /\ pc' = [pc EXCEPT ![p] = "done"]
  /\ loc' = [loc EXCEPT ![p].ret = r, ![p].err = e]

Goto(p, l) == pc' = [pc EXCEPT ![p] = l]

\* the caller takes the result; the session is free for the next call
Return(p) ==
  /\ pc[p] = "done"
  /\ pc' = [pc EXCEPT ![p] = "idle"]
  /\ loc' = [loc EXCEPT ![p] = IdleLoc]
  /\ UNCHANGED <<dbvars, rowlock, nfail>>

\* ---------------------------------------- createHazardReport (one INSERT)
CreateStart(p, u) ==
  /\ pc[p] = "idle"
  /\ Len(hazard_reports) < MaxReports /\ MayInsert
  /\ pc' = [pc EXCEPT ![p] = "cr_award"]
  /\ loc' = [loc EXCEPT ![p] = [IdleLoc EXCEPT !.op = "createHazardReport", !.user = u]]
  /\ UNCHANGED <<dbvars, rowlock, nfail>>

\* BEFORE INSERT trigger award_report_tokens: the UPDATE locks the profile row
CreateAward(p) ==
  /\ pc[p] = "cr_award"
  /\ rowlock[loc[p].user] = NoOne
  /\ rowlock' = [rowlock EXCEPT ![loc[p].user] = p]
  /\ Goto(p, "cr_commit")
  /\ UNCHANGED <<dbvars, loc, nfail>>

\* the row is inserted and the transaction commits: credit and row together
CreateCommit(p) ==
  /\ pc[p] = "cr_commit"
  /\ Len(hazard_reports) < MaxReports /\ MayInsert
  /\ tokens' = AwardTokens(tokens, loc[p].user)
  /\ hazard_reports' = Append(hazard_reports, NewHazardRow(loc[p].user))
  /\ rowlock' = ReleaseLocks(rowlock, p)
  /\ Finish(p, "row", "none")
  /\ UNCHANGED <<is_admin, full_name, store_items, votevars, commentvars, user_rewards, nfail>>

\* storage error: the transaction is rolled back, the client throws
CreateAbort(p) ==
  /\ pc[p] \in {"cr_award", "cr_commit"}
  /\ nfail < MaxFail
  /\ nfail' = nfail + 1
  /\ tokens' = RolledBackTokens(tokens, loc[p].user)
  /\ rowlock' = ReleaseLocks(rowlock, p)
  /\ Finish(p, "throw", "StorageError")
  /\ UNCHANGED <<is_admin, full_name, store_items, hazard_reports, votevars, commentvars, user_rewards>>

\* Report.tsx onSubmit: after the error toast the user submits the form again
CreateRetry(p) ==
  /\ pc[p] = "done"
  /\ loc[p].op = "createHazardReport"
  /\ loc[p].ret = "throw"
  /\ pc' = [pc EXCEPT ![p] = "cr_award"]
  /\ loc' = [loc EXCEPT ![p].ret = "none", ![p].err = "none", ![p].retried = TRUE]
  /\ UNCHANGED <<dbvars, rowlock, nfail>>

\* --------------------------------- redeemStoreItem (two reads, one INSERT)
RedeemStart(p, u, i) ==
  /\ pc[p] = "idle"
  /\ Len(user_rewards) < MaxRewards /\ MayInsert
  /\ pc' = [pc EXCEPT ![p] = "rs_profile"]
  /\ loc' = [loc EXCEPT ![p] = [IdleLoc EXCEPT !.op = "redeemStoreItem", !.user = u, !.item = i]]
  /\ UNCHANGED <<dbvars, rowlock, nfail>>

\* const profile = await getUserProfile(userId)
RedeemGetProfile(p) ==
  /\ pc[p] = "rs_profile"
  /\ loc' = [loc EXCEPT ![p].seenTokens = tokens[loc[p].user]]
  /\ Goto(p, "rs_item")
  /\ UNCHANGED <<dbvars, rowlock, nfail>>

\* the item is read (.single(): no row is 'Item not found') and the client
\* compares profile.tokens with item.token_cost
RedeemGetItem(p) ==
  /\ pc[p] = "rs_item"
  /\ IF loc[p].item \notin DOMAIN store_items
       THEN Finish(p, "false", "NotFound")
       ELSE LET cost == store_items[loc[p].item].token_cost IN
              IF loc[p].seenTokens < cost
                THEN /\ pc' = [pc EXCEPT ![p] = "done"]
                     /\ loc' = [loc EXCEPT ![p].seenCost = cost, ![p].ret = "false",
                                           ![p].err = "InsufficientBalance"]
                ELSE /\ pc' = [pc EXCEPT ![p] = "tr_cost"]
                     /\ loc' = [loc EXCEPT ![p].seenCost = cost]
  /\ UNCHANGED <<dbvars, rowlock, nfail>>

\* check_token_balance: SELECT token_cost INTO token_cost FROM store_items.
\* For an item that is gone token_cost is NULL, the comparison is not true
\* and "tokens - token_cost" violates NOT NULL: the INSERT fails.
TrigReadCost(p) ==
  /\ pc[p] = "tr_cost"
  /\ IF loc[p].item \notin DOMAIN store_items
       THEN Finish(p, "false", "StorageError")
       ELSE /\ loc' = [loc EXCEPT ![p].trigCost = store_items[loc[p].item].token_cost]
            /\ Goto(p, "tr_tokens")
  /\ UNCHANGED <<dbvars, rowlock, nfail>>

\* "SELECT token_cost INTO token_cost": token_cost names both the declared
\* variable and the column.  With plpgsql.variable_conflict = error (the
\* default) the statement raises and the INSERT fails; TrigReadCost is the
\* outcome in which the reference resolves to the column.
TrigAmbiguousCost(p) ==
  /\ pc[p] = "tr_cost"
  /\ Finish(p, "false", "StorageError")
  /\ UNCHANGED <<dbvars, rowlock, nfail>>

\* check_token_balance: SELECT tokens INTO user_tokens; IF ... RAISE EXCEPTION
TrigCheck(p) ==
  /\ pc[p] = "tr_tokens"
  /\ IF InsufficientTokens(tokens[loc[p].user], loc[p].trigCost)
       THEN Finish(p, "false", "InsufficientBalance")
       ELSE Goto(p, "tr_deduct") /\ UNCHANGED loc
  /\ UNCHANGED <<dbvars, rowlock, nfail>>

\* check_token_balance: the UPDATE of profiles locks the profile row
TrigDeduct(p) ==
  /\ pc[p] = "tr_deduct"
  /\ rowlock[loc[p].user] = NoOne
  /\ rowlock' = [rowlock EXCEPT ![loc[p].user] = p]
  /\ Goto(p, "tr_commit")
  /\ UNCHANGED <<dbvars, loc, nfail>>

\* the user_rewards row is inserted and the transaction commits; the foreign
\* key item_id REFERENCES store_items rejects the row of an item that is gone
TrigCommit(p) ==
  /\ pc[p] = "tr_commit"
  /\ rowlock' = ReleaseLocks(rowlock, p)
  /\ IF loc[p].item \in DOMAIN store_items
       THEN /\ Len(user_rewards) < MaxRewards /\ MayInsert
            /\ tokens' = DeductTokens(tokens, loc[p].user, loc[p].trigCost)
            /\ user_rewards' = Append(user_rewards, NewRewardRow(loc[p].user, loc[p].item))
            /\ Finish(p, "true", "none")
       ELSE /\ UNCHANGED <<tokens, user_rewards>>
            /\ Finish(p, "false", "StorageError")
  /\ UNCHANGED <<is_admin, full_name, store_items, hazard_reports, votevars, commentvars, nfail>>

\* a request of redeemStoreItem fails: the catch block returns false
RedeemFail(p) ==
  /\ pc[p] \in {"rs_profile", "rs_item", "tr_cost", "tr_tokens", "tr_deduct", "tr_commit"}
  /\ nfail < MaxFail
  /\ nfail' = nfail + 1
  /\ rowlock' = ReleaseLocks(rowlock, p)
  /\ Finish(p, "false", IF pc[p] \in {"rs_profile", "rs_item"} THEN "NotFound" ELSE "StorageError")
  /\ UNCHANGED dbvars

\* ------------------- Store page: loadData, handleRedeemItem, redeemReward

\* loadData: getStoreItems() lists the available items, getUserTokens() reads
\* the balance; both stay in the page's state; the user selects item i
StoreLoad(p, u, i) ==
  /\ pc[p] = "idle"
  /\ Len(user_rewards) < MaxRewards /\ MayInsert
  /\ i \in DOMAIN store_items /\ store_items[i].available
  /\ pc' = [pc EXCEPT ![p] = "pg_loaded"]
  /\ loc' = [loc EXCEPT ![p] = [IdleLoc EXCEPT !.op = "handleRedeemItem", !.user = u, !.item = i,
                                               !.cachedTokens = tokens[u],
                                               !.cachedCost = store_items[i].token_cost]]
  /\ UNCHANGED <<dbvars, rowlock, nfail>>

\* handleRedeemItem: if (userTokens < selectedItem.token_cost) toast and
\* return; else redeemReward(user.id, selectedItem.id, selectedItem.token_cost)
HandleRedeemItem(p) ==
  /\ pc[p] = "pg_loaded"
  /\ IF loc[p].cachedTokens < loc[p].cachedCost
       THEN Finish(p, "false", "InsufficientBalance")
       ELSE Goto(p, "rr_tokens") /\ loc' = [loc EXCEPT ![p].op = "redeemReward"]
  /\ UNCHANGED <<dbvars, rowlock, nfail>>

\* the later revision of the page: handleRedeemItem makes the same comparison
\* of the cached values and opens the confirmation dialog
HandleRedeemItemDialog(p) ==
  /\ pc[p] = "pg_loaded"
  /\ IF loc[p].cachedTokens < loc[p].cachedCost
       THEN Finish(p, "false", "InsufficientBalance")
       ELSE Goto(p, "pg_dialog") /\ UNCHANGED loc
  /\ UNCHANGED <<dbvars, rowlock, nfail>>

\* confirmRedeem: redeemStoreItem(user.id, selectedItem.id)
ConfirmRedeem(p) ==
  /\ pc[p] = "pg_dialog"
  /\ pc' = [pc EXCEPT ![p] = "rs_profile"]
  /\ loc' = [loc EXCEPT ![p].op = "redeemStoreItem"]
  /\ UNCHANGED <<dbvars, rowlock, nfail>>

\* redeemReward: userTokens = await getUserTokens(userId);
\* if (userTokens < tokenCost) throw
RedeemRewardCheck(p) ==
  /\ pc[p] = "rr_tokens"
  /\ LET userTokens == tokens[loc[p].user] IN
       IF userTokens < loc[p].cachedCost
         THEN /\ pc' = [pc EXCEPT ![p] = "done"]
              /\ loc' = [loc EXCEPT ![p].seenTokens = userTokens, ![p].ret = "false",
                                    ![p].err = "InsufficientBalance"]
         ELSE /\ pc' = [pc EXCEPT ![p] = "rr_rpc"]
              /\ loc' = [loc EXCEPT ![p].seenTokens = userTokens]
  /\ UNCHANGED <<dbvars, rowlock, nfail>>

\* getUserTokens: a failed read is caught and reported as a balance of 0
RedeemRewardTokensError(p) ==
  /\ pc[p] = "rr_tokens"
  /\ nfail < MaxFail
  /\ nfail' = nfail + 1
  /\ IF 0 < loc[p].cachedCost
       THEN Finish(p, "false", "InsufficientBalance")
       ELSE Goto(p, "rr_rpc") /\ UNCHANGED loc
  /\ UNCHANGED <<dbvars, rowlock>>

\* supabase.rpc("redeem_item"): the function is not part of schema.sql; it is
\* the engine's RedeemItem, one atomic unit that requires an existing,
\* available item and inserts the redemption row, on which
\* check_token_balance runs as on every INSERT INTO user_rewards
RedeemItemRpc(p) ==
  /\ pc[p] = "rr_rpc"
  /\ IF loc[p].item \in DOMAIN store_items /\ store_items[loc[p].item].available
       THEN Goto(p, "tr_cost") /\ UNCHANGED loc
       ELSE Finish(p, "false", "NotFound")
  /\ UNCHANGED <<dbvars, rowlock, nfail>>

\* ------------------------------------------ row level security policies

\* hazard_reports FOR UPDATE: "Users can update their own hazard reports"
\* or "Admins can update any hazard report"
CanUpdateHazard(actor, row) == actor = row.reported_by \/ is_admin[actor]

\* the policy also lets the owner of the redemption update it
CanUpdateRewardOwner(actor, row) == actor = row.user_id \/ is_admin[actor]

\* user_rewards FOR UPDATE: "Admins can update reward status"
CanUpdateReward(actor, row) == is_admin[actor]

\* ------------------------------------------ updateHazardStatus (one UPDATE)
\* .update({ status }).eq("id", id): rows the policies hide are not updated
\* and no error is reported for them
UpdateHazardStatus(p, actor, id, status) ==
  /\ pc[p] = "idle"
  /\ id \in 1..Len(hazard_reports)
  /\ hazard_reports' =
       IF CanUpdateHazard(actor, hazard_reports[id])
         THEN [hazard_reports EXCEPT ![id].status = status]
         ELSE hazard_reports
  /\ pc' = [pc EXCEPT ![p] = "done"]
  /\ loc' = [loc EXCEPT ![p] = [IdleLoc EXCEPT !.op = "updateHazardStatus", !.user = actor,
                                               !.ret = "true"]]
  /\ UNCHANGED <<tokens, is_admin, full_name, store_items, votevars, commentvars, user_rewards,
                 rowlock, nfail>>

\* ------------------------------------------ updateRewardStatus (one UPDATE)
UpdateRewardStatus(p, actor, id, status) ==
  /\ pc[p] = "idle"
  /\ id \in 1..Len(user_rewards)
  /\ user_rewards' =
       IF CanUpdateReward(actor, user_rewards[id])
         THEN [user_rewards EXCEPT ![id].status = status]
         ELSE user_rewards
  /\ pc' = [pc EXCEPT ![p] = "done"]
  /\ loc' = [loc EXCEPT ![p] = [IdleLoc EXCEPT !.op = "updateRewardStatus", !.user = actor,
                                               !.ret = "true"]]
  /\ UNCHANGED <<tokens, is_admin, full_name, store_items, hazard_reports, votevars, commentvars,
                 rowlock, nfail>>

\* the UPDATE request of either status function fails: the catch block returns false
UpdateStatusFail(p, op, actor, id, status) ==
  /\ pc[p] = "idle"
  /\ nfail < MaxFail
  /\ \/ op = "updateHazardStatus" /\ id \in 1..Len(hazard_reports) /\ status \in HazardStatus
     \/ op = "updateRewardStatus" /\ id \in 1..Len(user_rewards) /\ status \in RewardStatus
  /\ nfail' = nfail + 1
  /\ pc' = [pc EXCEPT ![p] = "done"]
  /\ loc' = [loc EXCEPT ![p] = [IdleLoc EXCEPT !.op = op, !.user = actor, !.ret = "false",
                                               !.err = "StorageError"]]
  /\ UNCHANGED <<dbvars, rowlock>>

\* ------------------------------ AdminPortal: checkAdmin, loadData, buttons
\* hazards is the page's state: the status of every report as it was loaded
\* (and as the page's own clicks changed it)

\* the lookup by mistake counts a failed read as admin
IsAdminResultTrueOnError(flag, failed) == failed \/ flag

\* checkIfUserIsAdmin: return data.is_admin || false; the catch block returns false
IsAdminResult(flag, failed) == ~failed /\ flag

\* the buttons of a card: Investigate for a displayed status of active,
\* Resolve for a displayed status of active or investigating
OfferedTransitions ==
  {<<"active", "investigating">>, <<"active", "resolved">>, <<"investigating", "resolved">>}

\* useEffect / checkAdmin: without a user the page navigates to /login
CheckAdmin(p, u) ==
  /\ pc[p] = "idle"
  /\ IF u = NoOne
       THEN /\ pc' = [pc EXCEPT ![p] = "done"]
            /\ loc' = [loc EXCEPT ![p] = [IdleLoc EXCEPT !.op = "checkAdmin", !.ret = "/login"]]
       ELSE /\ pc' = [pc EXCEPT ![p] = "ap_check"]
            /\ loc' = [loc EXCEPT ![p] = [IdleLoc EXCEPT !.op = "checkAdmin", !.user = u]]
  /\ UNCHANGED <<dbvars, rowlock, nfail>>

\* const isAdmin = await checkIfUserIsAdmin(user.id); if (!isAdmin) navigate("/")
CheckIfUserIsAdmin(p) ==
  /\ pc[p] = "ap_check"
  /\ IF IsAdminResult(is_admin[loc[p].user], FALSE)
       THEN Goto(p, "ap_load") /\ UNCHANGED loc
       ELSE Finish(p, "/", "none")
  /\ UNCHANGED <<dbvars, rowlock, nfail>>

\* the read of profiles.is_admin fails
CheckIfUserIsAdminError(p) ==
  /\ pc[p] = "ap_check"
  /\ nfail < MaxFail
  /\ nfail' = nfail + 1
  /\ IF IsAdminResult(is_admin[loc[p].user], TRUE)
       THEN Goto(p, "ap_load") /\ UNCHANGED loc
       ELSE Finish(p, "/", "StorageError")
  /\ UNCHANGED <<dbvars, rowlock>>

\* loadData: setHazards(await getAdminHazardReports())
LoadData(p) ==
  /\ pc[p] = "ap_load"
  /\ loc' = [loc EXCEPT ![p].hazards = [k \in 1..Len(hazard_reports) |-> hazard_reports[k].status]]
  /\ Goto(p, "ap_page")
  /\ UNCHANGED <<dbvars, rowlock, nfail>>

\* getAdminHazardReports fails: its catch block returns []
LoadDataError(p) ==
  /\ pc[p] = "ap_load"
  /\ nfail < MaxFail
  /\ nfail' = nfail + 1
  /\ loc' = [loc EXCEPT ![p].hazards = <<>>, ![p].err = "StorageError"]
  /\ Goto(p, "ap_page")
  /\ UNCHANGED <<dbvars, rowlock>>

\* handleUpdateHazardStatus: a button of card id is clicked; updateHazardStatus
\* sends the UPDATE and, when it returns true, the page's copy is updated
HandleUpdateHazardStatus(p, id, status) ==
  /\ pc[p] = "ap_page"
  /\ id \in 1..Len(loc[p].hazards)
  /\ <<loc[p].hazards[id], status>> \in OfferedTransitions
  /\ hazard_reports' =
       IF CanUpdateHazard(loc[p].user, hazard_reports[id])
         THEN [hazard_reports EXCEPT ![id].status = status]
         ELSE hazard_reports
  /\ loc' = [loc EXCEPT ![p].hazards[id] = status, ![p].id = id]
  /\ UNCHANGED <<tokens, is_admin, full_name, store_items, votevars, commentvars, user_rewards,
                 rowlock, nfail, pc>>

\* the UPDATE fails: updateHazardStatus returns false, the page's copy stays
HandleUpdateHazardStatusError(p, id, status) ==
  /\ pc[p] = "ap_page"
  /\ id \in 1..Len(loc[p].hazards)
  /\ <<loc[p].hazards[id], status>> \in OfferedTransitions
  /\ nfail < MaxFail
  /\ nfail' = nfail + 1
  /\ loc' = [loc EXCEPT ![p].err = "StorageError", ![p].id = id]
  /\ UNCHANGED <<dbvars, rowlock, pc>>

\* the admin leaves the page
AdminPortalClose(p) ==
  /\ pc[p] = "ap_page"
  /\ pc' = [pc EXCEPT ![p] = "idle"]
  /\ loc' = [loc EXCEPT ![p] = IdleLoc]
  /\ UNCHANGED <<dbvars, rowlock, nfail>>

\* a number field that is absent from a call's argument
Absent == -1

\* ----------------------------------- store_items: policies and admin calls
\* "Only admins can update store items" / "Only admins can delete store items"
CanChangeStoreItem(actor) == is_admin[actor]

CostValues == {10, 15}

\* the fields an update carries (fields left undefined are not sent)
StoreUpdates ==
  {[available |-> b] : b \in BOOLEAN} \cup {[token_cost |-> c] : c \in CostValues}

ApplyStoreUpdates(row, upd) ==
  [f \in DOMAIN row |-> IF f \in DOMAIN upd THEN upd[f] ELSE row[f]]

\* updateStoreItem: .update({...}).eq('id', id).select().single(); when no
\* row comes back (hidden by the policy, or gone) the call returns null
UpdateStoreItem(p, actor, i, upd) ==
  /\ pc[p] = "idle"
  /\ pc' = [pc EXCEPT ![p] = "done"]
  /\ IF i \in DOMAIN store_items /\ CanChangeStoreItem(actor)
       THEN /\ store_items' = [store_items EXCEPT ![i] = ApplyStoreUpdates(@, upd)]
            /\ loc' = [loc EXCEPT ![p] = [IdleLoc EXCEPT !.op = "updateStoreItem",
                                            !.user = actor, !.item = i, !.ret = "row"]]
       ELSE /\ UNCHANGED store_items
            /\ loc' = [loc EXCEPT ![p] = [IdleLoc EXCEPT !.op = "updateStoreItem",
                                            !.user = actor, !.item = i, !.ret = "null",
                                            !.err = "NotFound"]]
  /\ UNCHANGED <<tokens, is_admin, full_name, hazard_reports, votevars, commentvars, user_rewards,
                 rowlock, nfail>>

\* user_rewards.item_id REFERENCES store_items ON DELETE CASCADE
CascadeDeleteRewards(rows, i) == SelectSeq(rows, LAMBDA r : r.item_id # i)

\* deleteStoreItem: .delete().eq('id', id); deleting no row is not an error
DeleteStoreItem(p, actor, i) ==
  /\ pc[p] = "idle"
  /\ pc' = [pc EXCEPT ![p] = "done"]
  /\ loc' = [loc EXCEPT ![p] = [IdleLoc EXCEPT !.op = "deleteStoreItem", !.user = actor,
                                               !.item = i, !.ret = "true"]]
  /\ IF i \in DOMAIN store_items /\ CanChangeStoreItem(actor)
       THEN /\ store_items' = [j \in DOMAIN store_items \ {i} |-> store_items[j]]
            /\ user_rewards' = CascadeDeleteRewards(user_rewards, i)
       ELSE UNCHANGED <<store_items, user_rewards>>
  /\ UNCHANGED <<tokens, is_admin, full_name, hazard_reports, votevars, commentvars, rowlock, nfail>>

\* "Only admins can manage store items" (FOR INSERT)
CanCreateStoreItem(actor) == is_admin[actor]

\* the tokenCost a caller passes: any number, or nothing at all
PriceValues == {-5, 0, 10}

\* createStoreItem: .insert({..., token_cost: tokenCost, available: true});
\* token_cost is INTEGER NOT NULL with no CHECK: only a missing cost is refused
CreateStoreItem(p, actor, i, tokenCost) ==
  /\ pc[p] = "idle"
  /\ i \notin DOMAIN store_items
  /\ pc' = [pc EXCEPT ![p] = "done"]
  /\ IF CanCreateStoreItem(actor) /\ tokenCost # Absent
       THEN /\ store_items' = [j \in DOMAIN store_items \cup {i} |->
                                IF j = i THEN [token_cost |-> tokenCost, available |-> TRUE]
                                         ELSE store_items[j]]
            /\ loc' = [loc EXCEPT ![p] = [IdleLoc EXCEPT !.op = "createStoreItem",
                                            !.user = actor, !.item = i, !.ret = "row"]]
       ELSE /\ UNCHANGED store_items
            /\ loc' = [loc EXCEPT ![p] = [IdleLoc EXCEPT !.op = "createStoreItem",
                                            !.user = actor, !.item = i, !.ret = "null",
                                            !.err = "StorageError"]]
  /\ UNCHANGED <<tokens, is_admin, full_name, hazard_reports, votevars, commentvars, user_rewards,
                 rowlock, nfail>>

\* ----------------------------------------------- profiles: the user's own row

\* profiles FOR UPDATE: "Users can update their own profile"
CanUpdateProfile(actor, id) == actor = id

NameValues == {"n0", "n1"}

TokenValues == {0, 25}

\* Profile.tsx handleProfileUpdate: updateUserProfile({id, fullName, avatarUrl});
\* updateUserProfile comes from the auth context, which is not part of the
\* sources: it is the self-service edit of name and avatar
UpdateUserProfile(p, u, name) ==
  /\ pc[p] = "idle"
  /\ rowlock[u] = NoOne
  /\ full_name' = [full_name EXCEPT ![u] = name]
  /\ pc' = [pc EXCEPT ![p] = "done"]
  /\ loc' = [loc EXCEPT ![p] = [IdleLoc EXCEPT !.op = "updateUserProfile", !.user = u,
                                               !.ret = "true"]]
  /\ UNCHANGED <<tokens, is_admin, store_items, hazard_reports, votevars, commentvars,
                 user_rewards, rowlock, nfail>>

\* the columns of profiles an UPDATE may set
ProfileUpdates ==
  {[col |-> "full_name", val |-> n] : n \in NameValues}
    \cup {[col |-> "tokens", val |-> t] : t \in TokenValues}
    \cup {[col |-> "is_admin", val |-> b] : b \in BOOLEAN}

\* UPDATE profiles SET col = val WHERE id = target, sent in the actor's
\* session: the policy is the only check, and it names no column; rows the
\* policy hides are not updated and no error is reported for them
UpdateProfileRow(p, actor, target, upd) ==
  /\ pc[p] = "idle"
  /\ rowlock[target] = NoOne
  /\ IF CanUpdateProfile(actor, target)
       THEN /\ full_name' = IF upd.col = "full_name"
                              THEN [full_name EXCEPT ![target] = upd.val] ELSE full_name
            /\ tokens' = IF upd.col = "tokens"
                           THEN [tokens EXCEPT ![target] = upd.val] ELSE tokens
            /\ is_admin' = IF upd.col = "is_admin"
                             THEN [is_admin EXCEPT ![target] = upd.val] ELSE is_admin
       ELSE UNCHANGED <<full_name, tokens, is_admin>>
  /\ pc' = [pc EXCEPT ![p] = "done"]
  /\ loc' = [loc EXCEPT ![p] = [IdleLoc EXCEPT !.op = "updateProfileRow", !.user = actor,
                                               !.ret = "true"]]
  /\ UNCHANGED <<store_items, hazard_reports, votevars, commentvars, user_rewards,
                 rowlock, nfail>>

\* ------------------------------------------ updateHazardReport (one UPDATE)
\* the fields an update may carry; "none" stands for a field that is absent
HazardUpdates ==
  {upd \in [description : {"none", "d1"}, status : {"none"} \cup HazardStatus] :
     upd.description # "none" \/ upd.status # "none"}

\* Partial<HazardReport>: update arguments that also carry fields which
\* updateHazardReport does not copy into updateData
PartialHazardReports ==
  {upd \in [description : {"none", "d1"}, status : {"none", "resolved"},
            votes : {Absent, 7}, comments : {Absent, 7}, token_reward : {Absent, 99},
            reported_by : {"none", "admin"}] :
     \/ upd.description # "none" \/ upd.status # "none" \/ upd.reported_by # "none"
     \/ upd.votes # Absent \/ upd.comments # Absent \/ upd.token_reward # Absent}

\* .update(updates): every field of the argument is written
ApplyEveryField(row, upd) ==
  [row EXCEPT !.description = IF upd.description # "none" THEN upd.description ELSE @,
              !.status = IF upd.status # "none" THEN upd.status ELSE @,
              !.votes = IF upd.votes # Absent THEN upd.votes ELSE @,
              !.comments = IF upd.comments # Absent THEN upd.comments ELSE @,
              !.token_reward = IF upd.token_reward # Absent THEN upd.token_reward ELSE @,
              !.reported_by = IF upd.reported_by # "none" THEN upd.reported_by ELSE @]

\* if (updates.description) updateData.description = ...; if (updates.status) ...
ApplyHazardUpdates(row, upd) ==
  [row EXCEPT !.description = IF upd.description # "none" THEN upd.description ELSE @,
              !.status = IF upd.status # "none" THEN upd.status ELSE @]

\* .update(updateData).eq('id', id).select().single(): no row back is an error
UpdateHazardReport(p, actor, id, upd) ==
  /\ pc[p] = "idle"
  /\ id \in 1..Len(hazard_reports)
  /\ pc' = [pc EXCEPT ![p] = "done"]
  /\ IF CanUpdateHazard(actor, hazard_reports[id])
       THEN /\ hazard_reports' = [hazard_reports EXCEPT ![id] = ApplyHazardUpdates(@, upd)]
            /\ loc' = [loc EXCEPT ![p] = [IdleLoc EXCEPT !.op = "updateHazardReport",
                                            !.user = actor, !.ret = "row"]]
       ELSE /\ UNCHANGED hazard_reports
            /\ loc' = [loc EXCEPT ![p] = [IdleLoc EXCEPT !.op = "updateHazardReport",
                                            !.user = actor, !.ret = "null", !.err = "NotFound"]]
  /\ UNCHANGED <<tokens, is_admin, full_name, store_items, votevars, commentvars, user_rewards,
                 rowlock, nfail>>

\* --------------------------- hazard_comments and the two counter functions
\* increment_hazard_comments: SET comments = comments + 1
IncrementComments(c) == c + 1

\* decrement_hazard_comments: SET comments = GREATEST(0, comments - 1)
DecrementComments(c) == IF c - 1 > 0 THEN c - 1 ELSE 0

\* CREATE TRIGGER on_comment_added / on_comment_deleted ... EXECUTE FUNCTION
\* increment_hazard_comments(NEW.hazard_id): a trigger's arguments must be
\* literal constants and its function must take no argument and return
\* trigger, so PostgreSQL rejects both statements and neither trigger exists
CommentTriggersCreated == FALSE

\* what AFTER INSERT ON hazard_comments does to hazard_reports
OnCommentAdded(reports, h) ==
  IF CommentTriggersCreated
    THEN [reports EXCEPT ![h].comments = IncrementComments(@)]
    ELSE reports

\* what AFTER DELETE ON hazard_comments does to hazard_reports
OnCommentDeleted(reports, h) ==
  IF CommentTriggersCreated
    THEN [reports EXCEPT ![h].comments = DecrementComments(@)]
    ELSE reports

\* INSERT INTO hazard_comments ("Authenticated users can add comments")
AddComment(p, u, h) ==
  /\ pc[p] = "idle"
  /\ h \in 1..Len(hazard_reports)
  /\ MayInsert
  /\ hazard_comments' = hazard_comments \cup
       {[id |-> nextCommentId, hazard_id |-> h, user_id |-> u]}
  /\ nextCommentId' = nextCommentId + 1
  /\ hazard_reports' = OnCommentAdded(hazard_reports, h)
  /\ pc' = [pc EXCEPT ![p] = "done"]
  /\ loc' = [loc EXCEPT ![p] = [IdleLoc EXCEPT !.op = "addComment", !.user = u, !.ret = "true"]]
  /\ UNCHANGED <<tokens, is_admin, full_name, store_items, votevars, user_rewards, rowlock, nfail>>

\* DELETE FROM hazard_comments ("Users can delete their own comments")
DeleteComment(p, u, c) ==
  /\ pc[p] = "idle"
  /\ c \in hazard_comments
  /\ IF c.user_id = u
       THEN /\ hazard_comments' = hazard_comments \ {c}
            /\ hazard_reports' = OnCommentDeleted(hazard_reports, c.hazard_id)
       ELSE UNCHANGED <<hazard_comments, hazard_reports>>
  /\ pc' = [pc EXCEPT ![p] = "done"]
  /\ loc' = [loc EXCEPT ![p] = [IdleLoc EXCEPT !.op = "deleteComment", !.user = u, !.ret = "true"]]
  /\ UNCHANGED <<tokens, is_admin, full_name, store_items, votevars, nextCommentId, user_rewards,
                 rowlock, nfail>>

\* ------------------------------------------------- vote counter functions

\* increment_hazard_votes: SET votes = votes + 1
IncrementVotes(v) == v + 1

\* a decrement without the floor
DecrementVotesUnclamped(v) == v - 1

\* decrement_hazard_votes: SET votes = GREATEST(0, votes - 1)
DecrementVotes(v) == IF v - 1 > 0 THEN v - 1 ELSE 0

\* hazard_votes rows of one (report, user) pair
VoteRows(rows, h, u) == {v \in rows : v.hazard_id = h /\ v.user_id = u}

\* hazard_votes: UNIQUE(hazard_id, user_id) rejects a second row of the pair
UniqueViolation(rows, h, u) == VoteRows(rows, h, u) # {}

\* delete().eq('id', id)
DeleteVoteRow(rows, id) == {v \in rows : v.id # id}

\* insert({hazard_id, user_id}) with a fresh row id
InsertVoteRow(rows, id, h, u) == rows \cup {[id |-> id, hazard_id |-> h, user_id |-> u]}

\* number of hazard_votes rows that reference report h
VoteCount(rows, h) == Cardinality({v \in rows : v.hazard_id = h})

\* ------------------------------- voteHazardReport (three requests in a row)
\* wrote is a history field: the change to hazard_votes that the call has
\* committed so far ("none", "inserted", "deleted"); no step reads it
VoteStart(p, h, u) ==
  /\ pc[p] = "idle"
  /\ h \in 1..Len(hazard_reports)
  /\ pc' = [pc EXCEPT ![p] = "v_check"]
  /\ loc' = [loc EXCEPT ![p] = [IdleLoc EXCEPT !.op = "voteHazardReport", !.user = u, !.id = h]]
  /\ UNCHANGED <<dbvars, rowlock, nfail>>

\* select('*').eq(hazard_id).eq(user_id).single(): no row is not an error
VoteCheck(p) ==
  /\ pc[p] = "v_check"
  /\ LET found == VoteRows(hazard_votes, loc[p].id, loc[p].user) IN
       IF found # {}
         THEN /\ loc' = [loc EXCEPT ![p].existing = (CHOOSE v \in found : TRUE).id]
              /\ Goto(p, "v_delete")
         ELSE /\ Goto(p, "v_insert")
              /\ UNCHANGED loc
  /\ UNCHANGED <<dbvars, rowlock, nfail>>

\* delete().eq('id', existingVote.id): deleting no row is not an error
VoteDelete(p) ==
  /\ pc[p] = "v_delete"
  /\ hazard_votes' = DeleteVoteRow(hazard_votes, loc[p].existing)
  /\ loc' = [loc EXCEPT ![p].wrote = IF hazard_votes' # hazard_votes THEN "deleted" ELSE @]
  /\ Goto(p, "v_decr")
  /\ UNCHANGED <<tokens, is_admin, full_name, store_items, hazard_reports, nextVoteId, commentvars,
                 user_rewards, rowlock, nfail>>

\* rpc('decrement_hazard_votes'); return false
VoteDecrement(p) ==
  /\ pc[p] = "v_decr"
  /\ hazard_reports' = [hazard_reports EXCEPT ![loc[p].id].votes = DecrementVotes(@)]
  /\ Finish(p, "false", "none")
  /\ UNCHANGED <<tokens, is_admin, full_name, store_items, votevars, commentvars, user_rewards,
                 rowlock, nfail>>

\* insert({hazard_id, user_id}): the unique constraint makes the request fail
VoteInsert(p) ==
  /\ pc[p] = "v_insert"
  /\ IF UniqueViolation(hazard_votes, loc[p].id, loc[p].user)
       THEN /\ Finish(p, "false", "StorageError")
            /\ UNCHANGED <<hazard_votes, nextVoteId>>
       ELSE /\ nextVoteId <= MaxVoteIds
            /\ hazard_votes' = InsertVoteRow(hazard_votes, nextVoteId, loc[p].id, loc[p].user)
            /\ nextVoteId' = nextVoteId + 1
            /\ Goto(p, "v_incr")
            /\ loc' = [loc EXCEPT ![p].wrote = "inserted"]
  /\ UNCHANGED <<tokens, is_admin, full_name, store_items, hazard_reports, commentvars, user_rewards,
                 rowlock, nfail>>

\* rpc('increment_hazard_votes'); return true
VoteIncrement(p) ==
  /\ pc[p] = "v_incr"
  /\ hazard_reports' = [hazard_reports EXCEPT ![loc[p].id].votes = IncrementVotes(@)]
  /\ Finish(p, "true", "none")
  /\ UNCHANGED <<tokens, is_admin, full_name, store_items, votevars, commentvars, user_rewards,
                 rowlock, nfail>>

\* one of the three requests fails: the catch block returns false
VoteFail(p) ==
  /\ pc[p] \in {"v_check", "v_delete", "v_decr", "v_insert", "v_incr"}
  /\ nfail < MaxFail
  /\ nfail' = nfail + 1
  /\ Finish(p, "false", "StorageError")
  /\ UNCHANGED <<dbvars, rowlock>>

\* ------------------------------------------------------- specifications
CreateStep(p) ==
  \/ \E u \in Users : CreateStart(p, u)
  \/ CreateAward(p)
  \/ CreateCommit(p)
  \/ CreateAbort(p)
  \/ CreateRetry(p)

RedeemStep(p) ==
  \/ \E u \in Users, i \in Items : RedeemStart(p, u, i)
  \/ RedeemGetProfile(p)
  \/ RedeemGetItem(p)
  \/ TrigReadCost(p)
  \/ TrigAmbiguousCost(p)
  \/ TrigCheck(p)
  \/ TrigDeduct(p)
  \/ TrigCommit(p)
  \/ RedeemFail(p)

RewardStatusStep(p) ==
  \/ \E a \in Users, id \in 1..MaxRewards, st \in RewardStatus : UpdateRewardStatus(p, a, id, st)
  \/ \E a \in Users, id \in 1..MaxRewards, st \in RewardStatus :
       UpdateStatusFail(p, "updateRewardStatus", a, id, st)

HazardStatusStep(p) ==
  \/ \E a \in Users, id \in 1..MaxReports, st \in HazardStatus : UpdateHazardStatus(p, a, id, st)
  \/ \E a \in Users, id \in 1..MaxReports, st \in HazardStatus :
       UpdateStatusFail(p, "updateHazardStatus", a, id, st)

\* the token economy: reports are created, items redeemed, redemptions settled
NextEconomy == \E p \in Procs : Return(p) \/ CreateStep(p) \/ RedeemStep(p) \/ RewardStatusStep(p)

SpecEconomy == Init /\ [][NextEconomy]_vars

\* the report lifecycle: reports are created and their status is changed
NextStatus == \E p \in Procs : Return(p) \/ CreateStep(p) \/ HazardStatusStep(p)

SpecStatus == Init /\ [][NextStatus]_vars

\* the steps of a redemption made from the Store page
StorePageStep(p) ==
  \/ \E u \in Users, i \in Items : StoreLoad(p, u, i)
  \/ HandleRedeemItem(p)
  \/ HandleRedeemItemDialog(p)
  \/ ConfirmRedeem(p)
  \/ RedeemGetProfile(p)
  \/ RedeemGetItem(p)
  \/ RedeemRewardCheck(p)
  \/ RedeemRewardTokensError(p)
  \/ RedeemItemRpc(p)
  \/ TrigReadCost(p)
  \/ TrigAmbiguousCost(p)
  \/ TrigCheck(p)
  \/ TrigDeduct(p)
  \/ TrigCommit(p)
  \/ RedeemFail(p)

EditStep(p) ==
  \E a \in Users, id \in 1..MaxReports, upd \in HazardUpdates : UpdateHazardReport(p, a, id, upd)

\* the comments that user u adds and deletes
CommenterStep(p, u) ==
  \/ \E h \in 1..MaxReports : AddComment(p, u, h)
  \/ \E c \in hazard_comments : DeleteComment(p, u, c)

CommentStep(p) == \E u \in Users : CommenterStep(p, u)

\* user a calls updateHazardReport with any Partial<HazardReport>
EditAnyStep(p, a) ==
  \E id \in 1..MaxReports, upd \in PartialHazardReports : UpdateHazardReport(p, a, id, upd)

\* the steps of the voteHazardReport calls that user u makes
VoterStep(p, u) ==
  \/ \E h \in 1..MaxReports : VoteStart(p, h, u)
  \/ VoteCheck(p)
  \/ VoteDelete(p)
  \/ VoteDecrement(p)
  \/ VoteInsert(p)
  \/ VoteIncrement(p)
  \/ VoteFail(p)

VoteStep(p) == \E u \in Users : VoterStep(p, u)

CatalogStep(p) ==
  \/ \E a \in Users, i \in Items, upd \in StoreUpdates : UpdateStoreItem(p, a, i, upd)
  \/ \E a \in Users, i \in Items : DeleteStoreItem(p, a, i)

\* the vote ledger: the reports that exist are voted on.  The initial states
\* are the states in which reports have been created, each crediting its
\* reporter, and nothing else has happened yet.
InitCatalog(reporters, items) ==
  /\ \E rs \in UNION {[1..n -> reporters] : n \in 1..MaxReports} :
       /\ hazard_reports = [k \in 1..Len(rs) |-> NewHazardRow(rs[k])]
       /\ tokens = [u \in Users |->
                     token_amount * Cardinality({k \in 1..Len(rs) : rs[k] = u})]
  /\ is_admin = [u \in Users |-> u = "admin"]
  /\ full_name = [u \in Users |-> "n0"]
  /\ store_items = [i \in items |-> InitialStoreItems[i]]
  /\ hazard_votes = {}
  /\ nextVoteId = 1
  /\ hazard_comments = {}
  /\ nextCommentId = 1
  /\ user_rewards = <<>>
  /\ NoCalls

InitReports(reporters) == InitCatalog(reporters, Items)

InitVotes == InitReports(Users)

NextVotes == \E p \in Procs : Return(p) \/ VoteStep(p)

SpecVotes == InitVotes /\ [][NextVotes]_vars

\* the fields of a report: the reports alice made are edited and triaged in
\* one session while she votes and comments on the first of them in the other
NextFields ==
  \/ \E p \in Procs : Return(p)
  \/ EditAnyStep("p1", "alice")
  \/ HazardStatusStep("p1")
  \/ VoteStart("p2", 1, "alice")
  \/ VoteCheck("p2")
  \/ VoteDelete("p2")
  \/ VoteDecrement("p2")
  \/ VoteInsert("p2")
  \/ VoteIncrement("p2")
  \/ VoteFail("p2")
  \/ AddComment("p2", "alice", 1)
  \/ \E c \in hazard_comments : DeleteComment("p2", "alice", c)

SpecFields == InitReports({"alice"}) /\ [][NextFields]_vars

\* the steps that write a row of profiles directly
ProfileStep(p) ==
  \/ \E u \in Users, n \in NameValues : UpdateUserProfile(p, u, n)
  \/ \E a \in Users, t \in Users, upd \in ProfileUpdates : UpdateProfileRow(p, a, t, upd)

\* the profiles: reports are created while users write their own rows
NextProfile == \E p \in Procs : Return(p) \/ CreateStep(p) \/ ProfileStep(p)

SpecProfile == Init /\ [][NextProfile]_vars

\* the two counters of a report: one user, in two sessions, toggles votes
\* and adds and deletes comments on the reports she made
NextCounters ==
  \E p \in Procs : Return(p) \/ VoterStep(p, "alice") \/ CommenterStep(p, "alice")

SpecCounters == InitReports({"alice"}) /\ [][NextCounters]_vars

\* the store: the catalog is maintained while items are redeemed against
\* the balances that the existing reports have credited
NextCatalog == \E p \in Procs : Return(p) \/ RedeemStep(p) \/ CatalogStep(p)

SpecCatalog == InitVotes /\ [][NextCatalog]_vars

\* the life of a report: it is created, edited, triaged and commented on
\* the Store page next to report creation and catalog administration
NextStorePage == \E p \in Procs : Return(p) \/ CreateStep(p) \/ StorePageStep(p) \/ CatalogStep(p)

SpecStorePage == Init /\ [][NextStorePage]_vars

NextLifecycle ==
  \E p \in Procs :
    \/ Return(p)
    \/ CreateStep(p)
    \/ EditStep(p)
    \/ HazardStatusStep(p)
    \/ CommentStep(p)

SpecLifecycle == Init /\ [][NextLifecycle]_vars

\* the catalog's prices: the catalog holds item i1; items are created and
\* repriced, with any cost a caller may pass, while alice redeems item i1
PricingStep(p) ==
  \/ \E a \in Users, i \in Items, c \in PriceValues \cup {Absent} : CreateStoreItem(p, a, i, c)
  \/ \E a \in Users, i \in Items, c \in PriceValues : UpdateStoreItem(p, a, i, [token_cost |-> c])

RedeemOneStep(p, u, i) ==
  \/ RedeemStart(p, u, i)
  \/ RedeemGetProfile(p) \/ RedeemGetItem(p)
  \/ TrigReadCost(p) \/ TrigAmbiguousCost(p) \/ TrigCheck(p) \/ TrigDeduct(p) \/ TrigCommit(p)
  \/ RedeemFail(p)

NextPricing ==
  \/ \E p \in Procs : Return(p)
  \/ PricingStep("p1")
  \/ RedeemOneStep("p2", "alice", "i1")

SpecPricing == InitCatalog({"alice"}, {"i1"}) /\ [][NextPricing]_vars

\* the ledger: redemptions next to the deletion of catalog items; no price is
\* changed, every redemption is charged the item's initial cost
LedgerStep(p) == \E a \in Users, i \in Items : DeleteStoreItem(p, a, i)

NextLedger == \E p \in Procs : Return(p) \/ RedeemStep(p) \/ LedgerStep(p)

SpecLedger == InitVotes /\ [][NextLedger]_vars

\* the admin portal: two browser sessions open the page, as nobody, as alice
\* or as the admin, and click the buttons of the cards they display
AdminPortalStep(p) ==
  \/ \E u \in Users \cup {NoOne} : CheckAdmin(p, u)
  \/ CheckIfUserIsAdmin(p)
  \/ CheckIfUserIsAdminError(p)
  \/ LoadData(p)
  \/ LoadDataError(p)
  \/ \E id \in 1..MaxReports, st \in HazardStatus : HandleUpdateHazardStatus(p, id, st)
  \/ \E id \in 1..MaxReports, st \in HazardStatus : HandleUpdateHazardStatusError(p, id, st)
  \/ AdminPortalClose(p)

NextAdminPortal == \E p \in Procs : Return(p) \/ AdminPortalStep(p)

SpecAdminPortal == InitReports({"alice"}) /\ [][NextAdminPortal]_vars

\* the engine under fair scheduling: one user's reports and redemptions, so
\* that every transaction needs the same profile row, next to a vote toggle and
\* a status transition.  A call is started while the rows it may insert are
\* still within the bounds, the rows of the calls in progress counted
Creating == {q \in Procs : pc[q] \in {"cr_award", "cr_commit"}}

Redeeming ==
  {q \in Procs : pc[q] \in {"rs_profile", "rs_item", "tr_cost", "tr_tokens", "tr_deduct", "tr_commit"}}

Voting == {q \in Procs : pc[q] \in {"v_check", "v_insert"}}

RoomToInsert ==
  /\ EconomyRows + Cardinality(Creating) + Cardinality(Redeeming) < MaxEconomyRows
  /\ ThreadRows + Cardinality(Creating) < MaxThreadRows

RoomForReport == RoomToInsert /\ Len(hazard_reports) + Cardinality(Creating) < MaxReports

RoomForReward == RoomToInsert /\ Len(user_rewards) + Cardinality(Redeeming) < MaxRewards

RoomForVote == nextVoteId + Cardinality(Voting) <= MaxVoteIds

EngineStart(p) ==
  \/ RoomForReport /\ CreateStart(p, "alice")
  \/ RoomForReward /\ RedeemStart(p, "alice", "i1")
  \/ p = "p2" /\ RoomForVote /\ VoteStart(p, 1, "alice")
  \/ p = "p2" /\ \E st \in HazardStatus : UpdateHazardStatus(p, "admin", 1, st)

\* a request of a started call is answered
EngineRequest(p) ==
  \/ CreateCommit(p)
  \/ RedeemGetProfile(p) \/ RedeemGetItem(p)
  \/ TrigReadCost(p) \/ TrigAmbiguousCost(p) \/ TrigCheck(p) \/ TrigCommit(p)
  \/ VoteCheck(p) \/ VoteDelete(p) \/ VoteDecrement(p) \/ VoteInsert(p) \/ VoteIncrement(p)

\* the UPDATE of a profile row waits for the row lock
EngineLock(p) == CreateAward(p) \/ TrigDeduct(p)

EngineError(p) == CreateAbort(p) \/ RedeemFail(p) \/ VoteFail(p)

NextEngine ==
  \E p \in Procs : Return(p) \/ EngineStart(p) \/ EngineRequest(p) \/ EngineLock(p) \/ EngineError(p)

\* every request is answered in the end; the lock manager queues the waiters
\* of a row lock, so a waiter is not passed over for ever
EngineFairness ==
  \A p \in Procs : WF_vars(EngineRequest(p)) /\ SF_vars(EngineLock(p))

SpecEngine == Init /\ [][NextEngine]_vars /\ EngineFairness

Next == NextEconomy \/ NextStatus \/ NextLifecycle \/ NextVotes \/ NextCatalog \/ NextStorePage
          \/ NextCounters \/ NextProfile \/ NextFields \/ NextEngine \/ NextPricing
          \/ NextLedger \/ NextAdminPortal

Spec == Init /\ [][Next]_vars

\* ======================================================================
\* Properties
\* ======================================================================

Quiescent == \A p \in Procs : pc[p] \in {"idle", "done"}

RECURSIVE SumRewards(_, _)
\* sum of token_reward over the hazard_reports rows reported by u
SumRewards(rows, u) ==
  IF rows = <<>> THEN 0
  ELSE (IF Head(rows).reported_by = u THEN Head(rows).token_reward ELSE 0)
       + SumRewards(Tail(rows), u)

RewardRowsOf(u) == {k \in 1..Len(user_rewards) : user_rewards[k].user_id = u}

\* C1: in every reachable state every user's token balance is >= 0.
C1_BalanceNeverNegative == \A u \in Users : tokens[u] >= 0

RedeemDone(p) == pc[p] = "done" /\ loc[p].op = "redeemStoreItem"

\* two finished redemptions of the same item by the same user that both read
\* a balance equal to the cost, the user having been credited the cost once:
\* the two calls overlapped
RedeemRace(p, q) ==
  /\ p # q /\ RedeemDone(p) /\ RedeemDone(q)
  /\ loc[p].user = loc[q].user /\ loc[p].item = loc[q].item
  /\ loc[p].seenTokens = loc[p].seenCost /\ loc[q].seenTokens = loc[q].seenCost
  /\ SumRewards(hazard_reports, loc[p].user) = store_items[loc[p].item].token_cost
  /\ loc[p].err \notin {"StorageError", "NotFound"}
  /\ loc[q].err \notin {"StorageError", "NotFound"}

\* C2: two concurrent redemptions against a balance equal to the cost end
\* with one success, one InsufficientBalance, one redemption row, balance 0.
C2_ConcurrentRedeemOneWins ==
  \A p, q \in Procs :
    RedeemRace(p, q) =>
      /\ \/ loc[p].ret = "true" /\ loc[q].ret = "false" /\ loc[q].err = "InsufficientBalance"
         \/ loc[q].ret = "true" /\ loc[p].ret = "false" /\ loc[p].err = "InsufficientBalance"
      /\ Cardinality(RewardRowsOf(loc[p].user)) = 1
      /\ tokens[loc[p].user] = 0

\* the step in which call p makes the client-side or the trigger's balance
\* check and the balance it checks is less than the cost of the item
InsufficientCheck(p) ==
  /\ nfail' = nfail
  /\ \/ /\ pc[p] = "rs_item" /\ pc'[p] # "rs_item"
        /\ loc[p].seenTokens < store_items[loc[p].item].token_cost
     \/ /\ pc[p] = "tr_tokens" /\ pc'[p] # "tr_tokens"
        /\ tokens[loc[p].user] < store_items[loc[p].item].token_cost

\* C3: a redemption checked against a stored balance below the item's cost
\* fails with InsufficientBalance, changes no balance and creates no row.
C3_InsufficientFailsWithoutMutation ==
  [][\A p \in Procs :
       InsufficientCheck(p) =>
         /\ pc'[p] = "done"
         /\ loc'[p].ret = "false"
         /\ loc'[p].err = "InsufficientBalance"
         /\ tokens' = tokens
         /\ user_rewards' = user_rewards]_vars

\* cost 15, balance 10: the call has failed, the balance is still 10, no row
C3_Witness ==
  \E p \in Procs :
    /\ RedeemDone(p) /\ loc[p].err = "InsufficientBalance"
    /\ store_items[loc[p].item].token_cost = 15
    /\ loc[p].seenTokens = 10 /\ tokens[loc[p].user] = 10
    /\ RewardRowsOf(loc[p].user) = {}

\* C4: whenever no voteHazardReport call is in progress, R.votes equals the
\* number of hazard_votes rows of R, also after calls in which a request failed.
C4_VotesEqualRows ==
  Quiescent =>
    \A h \in 1..Len(hazard_reports) :
      hazard_reports[h].votes = VoteCount(hazard_votes, h)

\* voteHazardReport run to completion, no request failing and nothing in between
ToggleVote(s, h, u) ==
  LET found == VoteRows(s.rows, h, u) IN
    IF found # {}
      THEN [rows |-> DeleteVoteRow(s.rows, (CHOOSE v \in found : TRUE).id),
            votes |-> DecrementVotes(s.votes), next |-> s.next, ret |-> "false"]
      ELSE [rows |-> InsertVoteRow(s.rows, s.next, h, u),
            votes |-> IncrementVotes(s.votes), next |-> s.next + 1, ret |-> "true"]

\* C5: from any state in which no call is in progress, two voteHazardReport
\* calls in a row by U on R restore U's vote row and R.votes, and return
\* opposite booleans.
C5_ToggleTwiceRestores ==
  Quiescent =>
    \A h \in 1..Len(hazard_reports), u \in Users :
      LET s0 == [rows |-> hazard_votes, votes |-> hazard_reports[h].votes,
                 next |-> nextVoteId, ret |-> "none"]
          s1 == ToggleVote(s0, h, u)
          s2 == ToggleVote(s1, h, u)
      IN /\ (VoteRows(s2.rows, h, u) # {}) = (VoteRows(s0.rows, h, u) # {})
         /\ s2.votes = s0.votes
         /\ s1.ret # s2.ret

VoteDone(p) == pc[p] = "done" /\ loc[p].op = "voteHazardReport"

\* C6: concurrent voteHazardReport calls by one user on one report never
\* leave two rows for the pair, and once both calls have completed (no
\* request having failed) the counter equals the number of rows.
C6_ConcurrentTogglesConsistent ==
  /\ \A h \in 1..Len(hazard_reports), u \in Users :
       Cardinality(VoteRows(hazard_votes, h, u)) <= 1
  /\ \A p, q \in Procs :
       ( /\ p # q /\ VoteDone(p) /\ VoteDone(q) /\ nfail = 0
         /\ loc[p].user = loc[q].user /\ loc[p].id = loc[q].id )
       => hazard_reports[loc[p].id].votes = VoteCount(hazard_votes, loc[p].id)

CreateAborted(p) ==
  pc[p] \in {"cr_award", "cr_commit"} /\ pc'[p] = "done" /\ loc'[p].ret = "throw"

CreateSucceeded(p) ==
  pc[p] = "cr_commit" /\ pc'[p] = "done" /\ loc'[p].ret = "row"

CreateRetried(p) ==
  pc[p] = "done" /\ loc[p].op = "createHazardReport" /\ pc'[p] = "cr_award"

\* C7: an aborted creation attempt persists neither the row nor the credit,
\* a retry by itself changes nothing, and the attempt that succeeds adds
\* exactly one row and exactly token_reward to the reporter's balance.
C7_AbortedCreateLeavesNothing ==
  [][\A p \in Procs :
       /\ (CreateAborted(p) \/ CreateRetried(p)) =>
            tokens' = tokens /\ hazard_reports' = hazard_reports
       /\ CreateSucceeded(p) =>
            /\ Len(hazard_reports') = Len(hazard_reports) + 1
            /\ SubSeq(hazard_reports', 1, Len(hazard_reports)) = hazard_reports
            /\ hazard_reports'[Len(hazard_reports')].reported_by = loc[p].user
            /\ tokens' = [tokens EXCEPT ![loc[p].user] =
                            @ + hazard_reports'[Len(hazard_reports')].token_reward]
            /\ hazard_reports'[Len(hazard_reports')].token_reward = 10]_vars

\* a creation that succeeded on a retry after an aborted attempt
C7_Witness ==
  \E p \in Procs :
    /\ pc[p] = "done" /\ loc[p].op = "createHazardReport"
    /\ loc[p].ret = "row" /\ loc[p].retried
    /\ tokens[loc[p].user] = SumRewards(hazard_reports, loc[p].user)

\* C8: a balance is credited only by the step that inserts a report row, by
\* that row's token_reward and to its reporter, and no step changes the
\* token_reward or the reporter of a row that exists.
C8_RewardCreditedOnceAtCreation ==
  [][/\ \A k \in 1..Len(hazard_reports) :
          /\ k <= Len(hazard_reports')
          /\ hazard_reports'[k].token_reward = hazard_reports[k].token_reward
          /\ hazard_reports'[k].reported_by = hazard_reports[k].reported_by
     /\ \A u \in Users :
          tokens'[u] > tokens[u] =>
            /\ Len(hazard_reports') = Len(hazard_reports) + 1
            /\ hazard_reports'[Len(hazard_reports')].reported_by = u
            /\ tokens'[u] = tokens[u] + hazard_reports'[Len(hazard_reports')].token_reward
     /\ Len(hazard_reports') > Len(hazard_reports) =>
          LET new == hazard_reports'[Len(hazard_reports')] IN
            /\ Len(hazard_reports') = Len(hazard_reports) + 1
            /\ tokens'[new.reported_by] = tokens[new.reported_by] + new.token_reward]_vars

\* a report that was edited, triaged and commented on after its creation,
\* its reporter holding exactly the one credit
C8_Witness ==
  \E k \in 1..Len(hazard_reports) :
    /\ hazard_reports[k].description = "d1"
    /\ hazard_reports[k].status = "resolved"
    /\ \E c \in hazard_comments : c.hazard_id = k
    /\ tokens[hazard_reports[k].reported_by] = hazard_reports[k].token_reward

\* the forward transitions of a hazard report
AllowedHazardTransitions ==
  {<<"active", "investigating">>, <<"investigating", "resolved">>, <<"active", "resolved">>}

\* C9: a hazard status change outside active->investigating,
\* investigating->resolved, active->resolved fails with InvalidTransition and
\* leaves the stored status unchanged; a resolved report stays resolved.
C9_OnlyForwardHazardTransitions ==
  [][/\ \A k \in 1..Len(hazard_reports) :
          hazard_reports'[k].status # hazard_reports[k].status =>
            <<hazard_reports[k].status, hazard_reports'[k].status>> \in AllowedHazardTransitions
     /\ \A p \in Procs, a \in Users, k \in 1..Len(hazard_reports), st \in HazardStatus :
          ( /\ UpdateHazardStatus(p, a, k, st)
            /\ st # hazard_reports[k].status
            /\ <<hazard_reports[k].status, st>> \notin AllowedHazardTransitions )
          => loc'[p].err = "InvalidTransition"]_vars

\* the step in which a user without the admin flag calls updateRewardStatus
NonAdminRewardUpdate(p) ==
  /\ pc[p] = "idle" /\ pc'[p] = "done"
  /\ loc'[p].op = "updateRewardStatus"
  /\ ~is_admin[loc'[p].user]

\* C10: an updateRewardStatus call by a user whose is_admin flag is not true
\* leaves the status of every redemption unchanged.
C10_NonAdminCannotChangeRedemption ==
  [][\A p \in Procs : NonAdminRewardUpdate(p) => user_rewards' = user_rewards]_vars

\* a non-admin's request went through without an error while a redemption
\* of that user is still pending
C10_Witness ==
  \E p \in Procs :
    /\ pc[p] = "done" /\ loc[p].op = "updateRewardStatus"
    /\ ~is_admin[loc[p].user] /\ loc[p].err = "none"
    /\ \E k \in RewardRowsOf(loc[p].user) : user_rewards[k].status = "pending"

\* a finished updateRewardStatus call of a user without the admin flag whose
\* UPDATE request itself did not fail
NonAdminRewardUpdateDone(p) ==
  /\ pc[p] = "done" /\ loc[p].op = "updateRewardStatus"
  /\ ~is_admin[loc[p].user]
  /\ loc[p].err # "StorageError"

\* C11: updateRewardStatus called by a user whose is_admin flag is not true
\* reports a failure of kind NotAuthorized, never a success.
C11_NonAdminRewardUpdateNotAuthorized ==
  \A p \in Procs :
    NonAdminRewardUpdateDone(p) => loc[p].ret = "false" /\ loc[p].err = "NotAuthorized"

\* the transitions of a redemption
AllowedRewardTransitions == {<<"pending", "fulfilled">>, <<"pending", "cancelled">>}

\* C12: the status of a redemption changes only pending->fulfilled or
\* pending->cancelled, any other requested transition fails with
\* InvalidTransition, and a fulfilled or cancelled redemption keeps its status.
C12_OnlyPendingRewardTransitions ==
  [][/\ \A k \in 1..Len(user_rewards) :
          user_rewards'[k].status # user_rewards[k].status =>
            <<user_rewards[k].status, user_rewards'[k].status>> \in AllowedRewardTransitions
     /\ \A p \in Procs, a \in Users, k \in 1..Len(user_rewards), st \in RewardStatus :
          ( /\ UpdateRewardStatus(p, a, k, st)
            /\ is_admin[a]
            /\ <<user_rewards[k].status, st>> \notin AllowedRewardTransitions )
          => loc'[p].err = "InvalidTransition"]_vars

\* the token cost of the item of a user_rewards row
CostOf(row) == store_items[row.item_id].token_cost

\* C13: the cost of a redemption is subtracted from the redeeming user's
\* balance exactly once, in the step that inserts the redemption row, and a
\* later change of a redemption's status changes no balance.
C13_CostDeductedOnceAtCreation ==
  [][/\ \A u \in Users :
          tokens'[u] < tokens[u] =>
            /\ Len(user_rewards') = Len(user_rewards) + 1
            /\ user_rewards'[Len(user_rewards')].user_id = u
            /\ tokens'[u] = tokens[u] - CostOf(user_rewards'[Len(user_rewards')])
     /\ Len(user_rewards') > Len(user_rewards) =>
          LET new == user_rewards'[Len(user_rewards')] IN
            /\ Len(user_rewards') = Len(user_rewards) + 1
            /\ tokens' = [tokens EXCEPT ![new.user_id] = @ - CostOf(new)]
     /\ \A k \in 1..Len(user_rewards) :
          /\ k <= Len(user_rewards')
          /\ user_rewards'[k].user_id = user_rewards[k].user_id
          /\ user_rewards'[k].item_id = user_rewards[k].item_id
          /\ user_rewards'[k].status # user_rewards[k].status => tokens' = tokens]_vars

\* a redemption was paid for once and then cancelled: no refund was made
C13_Witness ==
  \E k \in 1..Len(user_rewards) :
    /\ user_rewards[k].status = "cancelled"
    /\ RewardRowsOf(user_rewards[k].user_id) = {k}
    /\ tokens[user_rewards[k].user_id] =
         SumRewards(hazard_reports, user_rewards[k].user_id) - CostOf(user_rewards[k])

\* the call that call p completes in this step was made by an administrator
StepByAdmin(p) == pc[p] = "idle" /\ pc'[p] = "done" /\ is_admin[loc'[p].user]

\* C14: the status of a hazard report changes only in a step of a call made
\* by a user whose is_admin flag is true, through updateHazardStatus as well
\* as through updateHazardReport; the reporter changes non-status fields only.
C14_OnlyAdminChangesHazardStatus ==
  [][\A k \in 1..Len(hazard_reports) :
       hazard_reports'[k].status # hazard_reports[k].status =>
         \E p \in Procs : StepByAdmin(p)]_vars

\* the step in which redemption call p ends with success / with a failure
RedeemSucceeded(p) ==
  pc[p] # "done" /\ pc'[p] = "done" /\ loc'[p].op = "redeemStoreItem" /\ loc'[p].ret = "true"

RedeemFailed(p) ==
  pc[p] # "done" /\ pc'[p] = "done" /\ loc'[p].op = "redeemStoreItem" /\ loc'[p].ret = "false"

\* C15: a successful redemption by U of item I takes cost(I) off balance(U)
\* and appends one pending redemption row (U, I) in one and the same step,
\* changing nothing else; no step does one of the two without the other, and
\* a redemption that fails does neither.
C15_RedeemDeductsAndInsertsTogether ==
  [][/\ \A p \in Procs :
          /\ RedeemSucceeded(p) =>
               /\ user_rewards' = Append(user_rewards,
                    [user_id |-> loc[p].user, item_id |-> loc[p].item, status |-> "pending"])
               /\ tokens' = [tokens EXCEPT ![loc[p].user] =
                               @ - store_items[loc[p].item].token_cost]
               /\ UNCHANGED <<is_admin, full_name, store_items, hazard_reports, votevars, commentvars>>
          /\ RedeemFailed(p) => UNCHANGED dbvars
     /\ (Len(user_rewards') # Len(user_rewards) \/ \E u \in Users : tokens'[u] < tokens[u])
          => \E p \in Procs : RedeemSucceeded(p)]_vars

\* a redemption that succeeded against a sufficient balance: one pending
\* row, the balance lower by the cost
C15_Witness ==
  \E p \in Procs :
    /\ RedeemDone(p) /\ loc[p].ret = "true"
    /\ loc[p].seenTokens >= loc[p].seenCost
    /\ \E k \in 1..Len(user_rewards) :
         /\ RewardRowsOf(loc[p].user) = {k}
         /\ user_rewards[k].item_id = loc[p].item /\ user_rewards[k].status = "pending"
         /\ store_items[loc[p].item].available
         /\ tokens[loc[p].user] = SumRewards(hazard_reports, loc[p].user) - CostOf(user_rewards[k])

\* the item of call p is in the catalog and can be redeemed
ItemAvailable(p) == loc[p].item \in DOMAIN store_items /\ store_items[loc[p].item].available

\* the step in which call p makes the client-side check of the item it has
\* read, or the trigger's check, while the item cannot be redeemed
UnavailableCheck(p) ==
  /\ nfail' = nfail
  /\ \/ pc[p] = "rs_item" /\ pc'[p] # "rs_item"
     \/ pc[p] = "tr_tokens" /\ pc'[p] # "tr_tokens"
  /\ ~ItemAvailable(p)

\* C17: a redemption of an item that does not exist or has its available
\* flag false when the client or the trigger checks the request fails there,
\* changes no balance and adds no redemption row.
C17_UnavailableItemNotRedeemed ==
  [][\A p \in Procs :
       UnavailableCheck(p) =>
         /\ pc'[p] = "done" /\ loc'[p].ret = "false"
         /\ tokens' = tokens
         /\ user_rewards' = user_rewards]_vars

\* the step on which a voteHazardReport call returns
VoteReturns(p) ==
  pc[p] # "done" /\ pc'[p] = "done" /\ loc'[p].op = "voteHazardReport"

\* C18: the boolean voteHazardReport(R, U) returns equals the vote state
\* that holds when the call returns: true exactly when a row for (R, U)
\* exists, on every path, the failing ones included.
C18_ReturnEqualsVoteState ==
  [][\A p \in Procs :
       VoteReturns(p) =>
         ( loc'[p].ret = "true"
             <=> VoteRows(hazard_votes', loc'[p].id, loc'[p].user) # {} )]_vars

\* the step on which one request of a voteHazardReport call fails
VoteStepFails(p) == VoteReturns(p) /\ loc'[p].err = "StorageError"

\* C19: when a step of voteHazardReport fails, the call leaves the vote rows
\* and the counter as they were before it: it has committed no change to
\* hazard_votes, and the failing step changes neither rows nor counter.
C19_FailedVoteChangesNothing ==
  [][\A p \in Procs :
       VoteStepFails(p) =>
         /\ loc'[p].wrote = "none"
         /\ hazard_votes' = hazard_votes
         /\ hazard_reports' = hazard_reports]_vars

\* number of hazard_comments rows that reference report h
CommentCount(rows, h) == Cardinality({c \in rows : c.hazard_id = h})

\* C20: in every state reached by comment insertions and deletions, the
\* comments counter of every report equals the number of hazard_comments
\* rows that reference the report.
C20_CommentsEqualRows ==
  \A h \in 1..Len(hazard_reports) :
    hazard_reports[h].comments = CommentCount(hazard_comments, h)

\* the step on which the client refuses a Store page redemption for want of
\* tokens, before the engine has run
RefusedByClient(p) ==
  /\ pc[p] \in {"pg_loaded", "rr_tokens"}
  /\ nfail' = nfail
  /\ pc'[p] = "done"
  /\ loc'[p].err = "InsufficientBalance"

\* the step on which a Store page redemption succeeds
RedeemRewardSucceeds(p) ==
  pc[p] = "tr_commit" /\ pc'[p] = "done" /\ loc'[p].ret = "true"

\* C16: the outcome of a redemption depends on the stored balance and the
\* stored cost only, never on the balance the page cached or the tokenCost
\* it passes: the client refuses a redemption for want of tokens only when
\* the engine would fail it as well (the item is gone or unavailable, or the
\* stored balance is below the stored cost), and a successful redemption
\* debits the cost read from store_items.
C16_OutcomeIndependentOfClientValues ==
  [][\A p \in Procs :
       /\ RefusedByClient(p) =>
            \/ loc[p].item \notin DOMAIN store_items
            \/ ~store_items[loc[p].item].available
            \/ tokens[loc[p].user] < store_items[loc[p].item].token_cost
       /\ RedeemRewardSucceeds(p) =>
            tokens'[loc[p].user] = tokens[loc[p].user] - loc[p].trigCost]_vars

\* the step on which increment_hazard_votes has run for call p
VotesIncremented(p) == pc[p] = "v_incr" /\ pc'[p] = "done" /\ nfail' = nfail

\* the step on which decrement_hazard_votes has run for call p
VotesDecremented(p) == pc[p] = "v_decr" /\ pc'[p] = "done" /\ nfail' = nfail

EngineBalanceStep(p, u) ==
  /\ pc[p] \in {"cr_commit", "tr_commit"}
  /\ pc'[p] = "done"
  /\ loc[p].user = u

\* the step of a self-service profile edit
ProfileEdited(p) ==
  pc[p] = "idle" /\ pc'[p] = "done" /\ loc'[p].op = "updateUserProfile"

\* C22: a self-service profile edit leaves every balance and every admin
\* flag unchanged, and a balance changes only on the step that commits a
\* report creation or a redemption of that user.
C22_OnlyEngineChangesBalances ==
  [][/\ (\E p \in Procs : ProfileEdited(p)) => tokens' = tokens /\ is_admin' = is_admin
     /\ \A u \in Users :
          tokens'[u] # tokens[u] => \E p \in Procs : EngineBalanceStep(p, u)]_vars

\* the step of an updateHazardReport or updateHazardStatus call
HazardUpdateStep(p) ==
  /\ pc[p] = "idle" /\ pc'[p] = "done"
  /\ loc'[p].op \in {"updateHazardReport", "updateHazardStatus"}

NonEconomyStep(p) ==
  /\ pc'[p] # pc[p]
  /\ loc'[p].op \in {"voteHazardReport", "addComment", "deleteComment",
                     "updateHazardStatus", "updateRewardStatus"}

\* C24: every step changes at most one balance, and only that of the user
\* whose report creation or redemption the step commits; votes, comments and
\* status transitions change no balance.
C24_OnlyActorsBalanceChanges ==
  [][/\ \A u \in Users :
          tokens'[u] # tokens[u] =>
            /\ \E p \in Procs : EngineBalanceStep(p, u)
            /\ \A w \in Users \ {u} : tokens'[w] = tokens[w]
     /\ (\E p \in Procs : NonEconomyStep(p)) => tokens' = tokens]_vars

\* alice has been credited for a report and debited for a redemption that
\* the admin then fulfilled, and the admin's balance is still 0
C24_Witness ==
  /\ Len(hazard_reports) = 1 /\ hazard_reports[1].reported_by = "alice"
  /\ Len(user_rewards) = 1 /\ user_rewards[1].user_id = "alice"
  /\ user_rewards[1].status = "fulfilled"
  /\ \E p \in Procs : pc[p] = "done" /\ loc[p].op = "updateRewardStatus" /\ loc[p].user = "admin"
  /\ tokens["alice"] = 0 /\ tokens["admin"] = 0

\* a call of session p is in progress
CallInProgress(p) == pc[p] \notin {"idle", "done"}

\* C25: concurrently running engine operations cannot deadlock: under fair
\* scheduling every started operation completes, with success or failure.
C25_EveryCallCompletes ==
  \A p \in Procs : CallInProgress(p) ~> (pc[p] = "done")

\* one transaction holds the lock of a profile row while another one, of the
\* same user, waits for it
C25_Witness ==
  \E p, q \in Procs :
    /\ pc[p] \in {"cr_commit", "tr_commit"} /\ rowlock[loc[p].user] = p
    /\ pc[q] \in {"cr_award", "tr_deduct"} /\ loc[q].user = loc[p].user

\* C26: every store item has a token cost > 0 in every reachable state:
\* createStoreItem and updateStoreItem never store a zero, negative or missing
\* cost, (so) a redemption never increases a balance.
C26_CostsArePositive ==
  /\ [](\A i \in DOMAIN store_items : store_items[i].token_cost > 0)
  /\ [][\A p \in Procs : pc[p] = "tr_commit" => tokens'[loc[p].user] <= tokens[loc[p].user]]_vars

RECURSIVE SumCosts(_, _)
\* the costs of u's redemption rows, at the prices InitialStoreItems
SumCosts(rows, u) ==
  IF rows = <<>> THEN 0
  ELSE (IF Head(rows).user_id = u THEN InitialStoreItems[Head(rows).item_id].token_cost ELSE 0)
       + SumCosts(Tail(rows), u)

\* C27: in every reachable state the balance of every user U is the sum of
\* token_reward over U's reports minus the sum, over U's redemption rows in any
\* status, of the item's cost at the time of the redemption (balances start at 0;
\* no price is changed in the behaviours checked, so that cost is the initial one).
C27_BalanceIsLedgerSum ==
  \A u \in Users : tokens[u] = SumRewards(hazard_reports, u) - SumCosts(user_rewards, u)

StatusRank(st) == CASE st = "active" -> 0 [] st = "investigating" -> 1 [] st = "resolved" -> 2

\* C28: with two admin sessions, each holding its own loaded copy of the hazard
\* list, the transitions AdminPortal offers never move the stored status of a
\* report backward (e.g. from resolved to investigating).
C28_StoredStatusNeverMovesBack ==
  [][\A k \in 1..Len(hazard_reports) :
       StatusRank(hazard_reports'[k].status) >= StatusRank(hazard_reports[k].status)]_vars

\* the page has called loadData
LoadDataCalled(p) == pc[p] = "ap_page"

\* the page has sent the user away
Redirected(p) == pc[p] = "done" /\ loc[p].op = "checkAdmin" /\ loc[p].ret \in {"/login", "/"}

NotEnoughTokensThrown(p) ==
  pc[p] = "rr_tokens" /\ pc'[p] = "done" /\ loc'[p].err = "InsufficientBalance"

\* C29: redeemReward rejects with its not-enough-tokens error only when the
\* user's stored balance is less than the item's cost (the tokenCost it was
\* called with); a failure to read the balance is not reported that way.
C29_NotEnoughTokensOnlyWhenShort ==
  [][\A p \in Procs :
       NotEnoughTokensThrown(p) => tokens[loc[p].user] < loc[p].cachedCost]_vars

====
